---- MODULE Spec2Model ----
(***************************************************************************)
(* Model of watchdog (src/src/main.rs): a file watcher that debounces      *)
(* Modify events and supervises one child process slot.                    *)
(*                                                                         *)
(* Time is an integer clock; one unit stands for 500 ms, so the default    *)
(* interval of 1000 ms is 2 units.  The control loop is a process whose    *)
(* position (pc) is one of its blocking calls: recv, kill, wait, try_wait  *)
(* and spawn.  Watcher callbacks, child exits and the clock interleave     *)
(* with it.                                                                *)
(***************************************************************************)
EXTENDS Integers, Sequences, FiniteSets

\* ---- bounds -------------------------------------------------------------
MaxTime     == 6   \* the clock stops advancing here
MaxSignals  == 3   \* watcher events delivered in one run
MaxProcs    == 2   \* processes the OS lets the supervisor create
MaxFiles    == 2   \* paths given with --files or listed in the --list file

None == 0          \* Option::None for the child slot

StartTime == 0     \* origin of the clock: the Instant::now() of line 87

ExitFailure == 1   \* std::process::exit(1)
PanicExit == 101   \* exit status of a Rust program whose main thread panics

\* --list: not given, naming a file that cannot be opened, or one that can
ListInputs == {"none", "unreadable", "readable"}

\* values of --interval tried, in clock units: 500 ms and the default 1000 ms
Intervals == {1, 2}

\* threads of the notify backend that may run the callback
WatcherThreads == {1, 2}

EventKinds == {"Modify", "Any", "Access", "Create", "Remove", "Other"}

VARIABLES
    list,        \* args.list
    files,       \* number of paths: args.files, then `files` still to watch
    exit_code,   \* <<>> while the program runs, else <<its exit status>>
    setup,       \* history: how the setup of lines 40-86 ended
    startup,     \* history: what line 93 did
    reexec,      \* args.reexec
    kill,        \* args.kill
    interval,    \* args.interval
    clock,       \* Instant::now()
    queue,       \* the mpsc channel: values sent and not yet received
    last,        \* `last`
    now,         \* `now` of the current iteration
    child,       \* `child`: None or the index of a process
    prev_child,  \* `prev_child`: the handle taken out of the slot
    procs,       \* OS view of the spawned processes, by index
    pc,          \* position of the main thread
    lock,        \* the Mutex around `tx`: None or the thread holding the guard
    modifies,    \* history: callbacks run for a Modify event
    others,      \* history: callbacks run for another kind or an error
    fresh,       \* history: per queued signal, sent at the present clock
    prompt,      \* history: every signal was received at the instant sent
    hist,        \* history: one record per received signal
    fired,       \* history: `now` of every effective Trigger
    taken,       \* history: the child taken from the slot in this cycle
    cycle        \* history: process-control calls made in this cycle

vars == <<list, files, exit_code, setup, startup, reexec, kill, interval, clock, queue, last, now, child, prev_child,
          procs, pc, lock, modifies, others, fresh, prompt, hist, fired,
          taken, cycle>>

watcherVars == <<lock, modifies, others>>
setupVars == <<list, files, setup>>

\* positions of the main thread before the loop's state exists
SetupPcs == {"files", "watcher", "watch"}

Running == exit_code = <<>>

\* ---- pure helpers -------------------------------------------------------

\* faults of the filter of line 109
Effective_AtInterval(n, l, i) == n - l >= i
Effective_NoInterval(n, l, i) == n - l > 0
Effective_Late(n, l, i) == n - l > i + 1

\* line 109: now - last > Duration::from_millis(interval)
Effective(n, l, i) == n - l > i

\* std::process::Child: the process is still executing
Alive(st) == st \in {"running", "killed"}

\* line 115: which branch handles a held child
KillBranch(k, r) == k /\ r

\* fault: the wait is made whatever the kill returned
AfterKill_NoShortCircuit(ok) == "wait"

\* lines 116-123: `kill().is_ok() && wait().is_ok()` short-circuits
AfterKill(ok) == IF ok THEN "wait" ELSE "spawn"

\* line 132-135: try_wait() gave Ok(None) when stillRunning; the handle goes
\* back into the slot only when `exited` (= is_none()) is false
AfterPoll(stillRunning, c) ==
    LET exited == stillRunning
    IN  IF ~exited THEN c ELSE None

\* line 138: spawn only when the slot is empty
AfterReconcile(c) == IF c = None THEN "spawn" ELSE "recv"

\* Child::kill() that succeeded: SIGKILL is pending on a live process
Killed(st) == IF st = "running" THEN "killed" ELSE st

\* Child::wait()/try_wait() that saw the exit status: the zombie is reaped
Reaped(st) == IF st = "exited" THEN "reaped" ELSE st

\* signals sent so far: received ones and those still in the channel
Sent == Len(hist) + Len(queue)

\* ---- initial state: the arguments are parsed (line 39) -------------------
Init ==
    /\ list \in ListInputs
    /\ files \in 0..MaxFiles
    /\ exit_code = <<>>
    /\ setup = "running"
    /\ startup = "none"
    /\ reexec \in BOOLEAN
    /\ kill \in BOOLEAN
    /\ interval \in Intervals
    /\ clock = StartTime
    /\ queue = <<>>
    /\ last = 0
    /\ now = 0
    /\ child = None
    /\ prev_child = None
    /\ procs = <<>>
    /\ pc = "files"
    /\ lock = None
    /\ modifies = 0
    /\ others = 0
    /\ fresh = <<>>
    /\ prompt = TRUE
    /\ hist = <<>>
    /\ fired = <<>>
    /\ taken = None
    /\ cycle = <<>>

\* ---- environment --------------------------------------------------------

\* a signal can still be received: the clock will be read again
ClockObserved == modifies + others < MaxSignals \/ queue # <<>> \/ lock # None

\* time passes; the clock's origin is the instant line 87 reads it, so the
\* clock stands still until then (signals sent earlier count as sent at 0),
\* and time is followed only as long as the loop may read the clock again
Tick ==
    /\ pc \notin SetupPcs \cup {"start"}
    /\ Running
    /\ ClockObserved
    /\ clock < MaxTime
    /\ clock' = clock + 1
    /\ fresh' = [i \in 1..Len(fresh) |-> FALSE]
    /\ UNCHANGED <<reexec, kill, interval, queue, last, now, child, prev_child,
                   procs, pc, hist, fired, taken, cycle>>
    /\ UNCHANGED watcherVars
    /\ UNCHANGED prompt
    /\ UNCHANGED <<setupVars, exit_code, startup>>

\* fault: a Create event is passed on like a Modify event
Propagates_Create(kind) == kind \in {"Modify", "Create"}

\* lines 62-74: only a Modify event sends
Propagates(kind) == kind = "Modify"

\* fault: the value is sent twice
Enqueue_Twice(q) == Append(Append(q, 1), 1)

\* line 66: lock.send(1) on the unbounded channel
Enqueue(q) == Append(q, 1)

\* lines 60-65: the callback runs on thread t for one event (or one watcher
\* error) and, for a Modify event, takes the lock on the sender
WatcherEvent(t, kind) ==
    /\ pc \notin SetupPcs
    /\ Running
    /\ lock # t
    /\ modifies + others < MaxSignals
    /\ modifies' = IF kind = "Modify" THEN modifies + 1 ELSE modifies
    /\ others' = IF kind = "Modify" THEN others ELSE others + 1
    /\ IF Propagates(kind)
       THEN /\ lock = None
            /\ lock' = t
       ELSE UNCHANGED lock
    /\ UNCHANGED <<reexec, kill, interval, clock, queue, last, now, child,
                   prev_child, procs, pc, fresh, hist, fired, taken, cycle>>
    /\ UNCHANGED prompt
    /\ UNCHANGED <<setupVars, exit_code, startup>>

\* lines 66-67: thread t sends and drops the guard
Send(t) ==
    /\ Running
    /\ lock = t
    /\ queue' = Enqueue(queue)
    /\ fresh' = Append(fresh, TRUE)
    /\ lock' = None
    /\ UNCHANGED <<reexec, kill, interval, clock, last, now, child,
                   prev_child, procs, pc, modifies, others, hist, fired,
                   taken, cycle>>
    /\ UNCHANGED prompt
    /\ UNCHANGED <<setupVars, exit_code, startup>>

\* a child exits, by itself or because of a pending SIGKILL
ChildExit(c) ==
    /\ c \in 1..Len(procs)
    /\ Alive(procs[c])
    /\ procs' = [procs EXCEPT ![c] = "exited"]
    /\ UNCHANGED <<reexec, kill, interval, clock, queue, last, now, child,
                   prev_child, pc, fresh, hist, fired, taken, cycle>>
    /\ UNCHANGED watcherVars
    /\ UNCHANGED prompt
    /\ UNCHANGED <<setupVars, exit_code, startup>>

\* ---- main thread --------------------------------------------------------

\* exit status the program ends with when the main thread gets to position p
ExitOf(p) ==
    IF p = "panicked" THEN <<PanicExit>>
    ELSE IF p = "exited" THEN <<ExitFailure>>
    ELSE <<>>

\* fault: a list file that cannot be opened is taken for an empty list
AfterResolve_OpenIgnored(l, n) == IF l = "unreadable" \/ n = 0 THEN "exited"
                                  ELSE "watcher"

\* lines 41-53: expect() panics on an unreadable list file, an empty list
\* exits
AfterResolve(l, n) ==
    IF l = "unreadable" THEN "panicked"
    ELSE IF n = 0 THEN "exited"
    ELSE "watcher"

\* lines 40-53: resolve the file list; n lines are read from the list file
ResolveFiles(n) ==
    /\ pc = "files"
    /\ LET resolved == IF list = "readable" THEN n ELSE files
           p == AfterResolve(list, resolved)
       IN  /\ pc' = p
           /\ exit_code' = ExitOf(p)
           /\ files' = IF p = "watcher" THEN resolved ELSE 0
           /\ setup' = IF list = "unreadable" THEN "open_err"
                       ELSE IF resolved = 0 THEN "empty"
                       ELSE setup
    /\ list' = "none"
    /\ UNCHANGED <<startup, reexec, kill, interval, clock, queue, last, now,
                   child, prev_child, procs, fresh, prompt, hist, fired,
                   taken, cycle>>
    /\ UNCHANGED watcherVars

\* lines 59-77: notify::recommended_watcher(..).unwrap()
NewWatcher(ok) ==
    /\ pc = "watcher"
    /\ LET p == IF ok THEN "watch" ELSE "panicked"
       IN  /\ pc' = p
           /\ exit_code' = ExitOf(p)
    /\ setup' = IF ok THEN setup ELSE "watcher_err"
    /\ UNCHANGED <<list, files, startup, reexec, kill, interval, clock, queue,
                   last, now, child, prev_child, procs, fresh, prompt, hist,
                   fired, taken, cycle>>
    /\ UNCHANGED watcherVars

\* fault: a failed registration does not stop the program
AfterWatch_Ignored(ok, remaining) == IF remaining = 0 THEN "start" ELSE "watch"

\* lines 78-86: a failed registration exits, the last one ends the setup
AfterWatch(ok, remaining) ==
    IF ~ok THEN "exited"
    ELSE IF remaining = 0 THEN "start"
    ELSE "watch"

\* lines 78-86: watcher.watch() on the next path
Watch(ok) ==
    /\ pc = "watch"
    /\ LET p == AfterWatch(ok, files - 1)
       IN  /\ pc' = p
           /\ exit_code' = ExitOf(p)
           /\ files' = IF p = "watch" THEN files - 1 ELSE 0
           /\ setup' = IF ~ok THEN "watch_err"
                       ELSE IF files = 1 THEN "ok"
                       ELSE setup
    /\ UNCHANGED <<list, startup, reexec, kill, interval, clock, queue, last,
                   now, child, prev_child, procs, fresh, prompt, hist, fired,
                   taken, cycle>>
    /\ UNCHANGED watcherVars

\* fault: the command is started at startup whatever --reexec
StartupSpawn_Always(r) == TRUE

\* line 93: the command is started at startup only with --reexec
StartupSpawn(r) == r

\* lines 87-105: initialise `last`, spawn at startup when --reexec
Start(ok) ==
    /\ pc = "start"
    /\ last' = clock
    /\ IF StartupSpawn(reexec)
       THEN IF ok /\ Len(procs) < MaxProcs
            THEN /\ procs' = Append(procs, "running")
                 /\ child' = Len(procs) + 1
                 /\ startup' = "spawn_ok"
            ELSE /\ child' = None
                 /\ startup' = "spawn_err"
                 /\ UNCHANGED procs
       ELSE /\ child' = None
            /\ startup' = "skipped"
            /\ UNCHANGED procs
    /\ pc' = "recv"
    /\ UNCHANGED <<setupVars, exit_code>>
    /\ UNCHANGED <<reexec, kill, interval, clock, queue, now, prev_child,
                   fresh, hist, fired, taken, cycle>>
    /\ UNCHANGED watcherVars
    /\ UNCHANGED prompt

\* fault: the loop receives while its wait on the child is pending
Receiving_DuringWait(p) == p \in {"recv", "wait"}

\* lines 106-107: rx.recv() is called only at the top of the loop
Receiving(p) == p = "recv"

\* fault: the signal is read but left in the channel
Dequeue_Peek(q) == q

\* line 107: rx.recv() removes the oldest value
Dequeue(q) == Tail(q)

\* fault: `last` follows every received signal
NextLast_EverySignal(e, n, l) == n

\* lines 109-110: `last = now` only inside the `if`
NextLast(e, n, l) == IF e THEN n ELSE l

\* fault: without --reexec an empty slot is left empty
AfterTake_ReexecOnly(c, k, r) ==
    IF c = None THEN (IF r THEN "spawn" ELSE "recv")
    ELSE IF KillBranch(k, r) THEN "kill"
    ELSE "poll"

\* lines 114-138: the first call of a reconcile, given the slot `c`
AfterTake(c, k, r) ==
    IF c = None THEN AfterReconcile(None)
    ELSE IF KillBranch(k, r) THEN "kill"
    ELSE "poll"

\* lines 107-115: receive one signal, apply the debounce filter, take the
\* child out of the slot and pick the branch
Recv ==
    /\ Receiving(pc)
    /\ queue # <<>>
    /\ queue' = Dequeue(queue)
    /\ now' = clock
    /\ fresh' = Tail(fresh)
    /\ LET e == Effective(clock, last, interval)
       IN  /\ hist' = Append(hist, [deq |-> clock, eff |-> e])
           /\ prompt' = (prompt /\ Head(fresh))
           /\ cycle' = <<>>
           /\ last' = NextLast(e, clock, last)
           /\ IF e
              THEN /\ fired' = Append(fired, clock)
                   /\ taken' = child
                   /\ prev_child' = child
                   /\ child' = None
                   /\ pc' = AfterTake(child, kill, reexec)
              ELSE /\ taken' = None
                   /\ UNCHANGED <<fired, prev_child, child, pc>>
    /\ UNCHANGED <<reexec, kill, interval, clock, procs>>
    /\ UNCHANGED watcherVars
    /\ UNCHANGED <<setupVars, exit_code, startup>>

\* lines 116-119: prev_child.kill()
Kill(ok) ==
    /\ pc = "kill"
    /\ cycle' = Append(cycle, IF ok THEN "kill_ok" ELSE "kill_err")
    /\ procs' = IF ok THEN [procs EXCEPT ![prev_child] = Killed(@)] ELSE procs
    /\ pc' = AfterKill(ok)
    /\ prev_child' = IF AfterKill(ok) = "wait" THEN prev_child ELSE None
    /\ UNCHANGED <<reexec, kill, interval, clock, queue, last, now, child,
                   fresh, hist, fired, taken>>
    /\ UNCHANGED watcherVars
    /\ UNCHANGED prompt
    /\ UNCHANGED <<setupVars, exit_code, startup>>

\* lines 120-130: prev_child.wait(); blocks while the process is alive
Wait(ok) ==
    /\ pc = "wait"
    /\ ok => ~Alive(procs[prev_child])
    /\ cycle' = Append(cycle, IF ok THEN "wait_ok" ELSE "wait_err")
    /\ procs' = IF ok THEN [procs EXCEPT ![prev_child] = Reaped(@)] ELSE procs
    /\ prev_child' = None
    /\ pc' = AfterReconcile(child)
    /\ UNCHANGED <<reexec, kill, interval, clock, queue, last, now, child,
                   fresh, hist, fired, taken>>
    /\ UNCHANGED watcherVars
    /\ UNCHANGED prompt
    /\ UNCHANGED <<setupVars, exit_code, startup>>

\* lines 132-136: prev_child.try_wait().unwrap()
Poll(ok) ==
    /\ pc = "poll"
    /\ IF ~ok
       THEN /\ cycle' = Append(cycle, "poll_err")
            /\ pc' = "panicked"
            /\ exit_code' = ExitOf("panicked")
            /\ UNCHANGED <<child, prev_child, procs>>
       ELSE LET stillRunning == Alive(procs[prev_child])
                c == AfterPoll(stillRunning, prev_child)
            IN  /\ cycle' = Append(cycle, IF stillRunning THEN "poll_running"
                                          ELSE "poll_exited")
                /\ procs' = [procs EXCEPT ![prev_child] = Reaped(@)]
                /\ child' = c
                /\ prev_child' = None
                /\ pc' = AfterReconcile(c)
                /\ UNCHANGED exit_code
    /\ UNCHANGED <<reexec, kill, interval, clock, queue, last, now,
                   fresh, hist, fired, taken>>
    /\ UNCHANGED watcherVars
    /\ UNCHANGED prompt
    /\ UNCHANGED <<setupVars, startup>>

\* fault: a failed spawn is tried again at once
AfterSpawn_Retry(ok) == IF ok THEN "recv" ELSE "spawn"

\* lines 138-150: one spawn per cycle, then back to the top of the loop
AfterSpawn(ok) == "recv"

\* lines 138-148: command.spawn()
Spawn(ok) ==
    /\ pc = "spawn"
    /\ IF ok /\ Len(procs) < MaxProcs
       THEN /\ procs' = Append(procs, "running")
            /\ child' = Len(procs) + 1
            /\ cycle' = Append(cycle, "spawn_ok")
            /\ pc' = AfterSpawn(TRUE)
       ELSE /\ child' = None
            /\ cycle' = Append(cycle, "spawn_err")
            /\ pc' = AfterSpawn(FALSE)
            /\ UNCHANGED procs
    /\ UNCHANGED <<reexec, kill, interval, clock, queue, last, now,
                   prev_child, fresh, hist, fired, taken>>
    /\ UNCHANGED watcherVars
    /\ UNCHANGED prompt
    /\ UNCHANGED <<setupVars, exit_code, startup>>

Next ==
    \/ \E n \in 0..MaxFiles : ResolveFiles(n)
    \/ \E ok \in BOOLEAN : NewWatcher(ok)
    \/ \E ok \in BOOLEAN : Watch(ok)
    \/ Tick
    \/ \E t \in WatcherThreads, kind \in EventKinds \cup {"Err"} :
          WatcherEvent(t, kind)
    \/ \E t \in WatcherThreads : Send(t)
    \/ \E c \in 1..MaxProcs : ChildExit(c)
    \/ \E ok \in BOOLEAN : Start(ok)
    \/ Recv
    \/ \E ok \in BOOLEAN : Kill(ok)
    \/ \E ok \in BOOLEAN : Wait(ok)
    \/ \E ok \in BOOLEAN : Poll(ok)
    \/ \E ok \in BOOLEAN : Spawn(ok)

Spec == Init /\ [][Next]_vars

\* ---- vocabulary of the properties ---------------------------------------

KillOps  == {"kill_ok", "kill_err"}
WaitOps  == {"wait_ok", "wait_err"}
PollOps  == {"poll_running", "poll_exited", "poll_err"}
SpawnOps == {"spawn_ok", "spawn_err"}

InCycle(ops) == \E i \in 1..Len(cycle) : cycle[i] \in ops

\* every signal sent so far has been received
AllProcessed == queue = <<>> /\ lock = None
NumEffective(i, j) == Cardinality({k \in i..j : hist[k].eff})
NumAlive == Cardinality({c \in 1..Len(procs) : Alive(procs[c])})

\* an effective Trigger found a child in the slot
HeldCycle == taken # None

\* ---- C1 -----------------------------------------------------------------

\* C1 as stated, for events received at the instant they arrive (arrival
\* time = dequeue time): when all the Modify
\* events so far arrived within one interval (first to last less than
\* `interval` apart) and all have been dequeued, exactly one of them was an
\* effective Trigger.
C1_BurstExactlyOne ==
    (/\ hist # <<>>
     /\ AllProcessed
     /\ prompt
     /\ hist[Len(hist)].deq - hist[1].deq < interval)
    => NumEffective(1, Len(hist)) = 1

\* C1 amended: of any run of Modify signals the loop dequeues within one
\* interval (first to last dequeue less than `interval` apart by the loop's
\* clock) at most one is an effective Trigger.
C1_BurstAtMostOne ==
    \A i, j \in 1..Len(hist) :
        (i <= j /\ hist[j].deq - hist[i].deq < interval)
        => NumEffective(i, j) <= 1

C1_Witness ==
    /\ Len(hist) >= 2
    /\ hist[2].deq - hist[1].deq < interval
    /\ hist[1].eff
    /\ ~hist[2].eff
    /\ pc = "recv"

\* ---- C2 -----------------------------------------------------------------

\* C2: with reexec and kill, in a cycle that found a child and whose kill or
\* wait failed, no spawn is attempted and the slot stays empty until the
\* next effective Trigger.
C2_NoSpawnAfterFailedKill ==
    (reexec /\ kill /\ HeldCycle /\ InCycle({"kill_err", "wait_err"}))
    => (child = None /\ ~InCycle(SpawnOps))

\* ---- C3 -----------------------------------------------------------------

\* C3: with reexec and not kill, a poll that finds the held child running
\* leaves it in the slot and spawns nothing in the cycle; a poll that finds
\* it exited clears the slot and a spawn follows in the cycle.
C3_PollDecides ==
    (reexec /\ ~kill /\ HeldCycle)
    => /\ InCycle({"poll_running"})
            => (child = taken /\ ~InCycle(SpawnOps))
       /\ InCycle({"poll_exited"})
            => (child # taken /\ (pc = "spawn" \/ InCycle(SpawnOps)))

\* ---- C4 -----------------------------------------------------------------

\* C4: at most one process spawned by the supervisor is alive.
C4_AtMostOneAlive == NumAlive <= 1

\* ---- C5 -----------------------------------------------------------------

\* C5: with reexec, whatever the kill flag, a cycle that found a child
\* starts by killing it: its first call is the kill, and a spawn comes only
\* after a kill.
C5_ReexecForcesKill ==
    (reexec /\ HeldCycle)
    => /\ cycle # <<>> => cycle[1] \in KillOps
       /\ InCycle(SpawnOps) => InCycle(KillOps)

\* ---- C6 -----------------------------------------------------------------

\* C6: with kill and without reexec, a cycle that found a child spawns only
\* after that child has been killed.
C6_KillBeforeSpawn ==
    (kill /\ ~reexec /\ HeldCycle)
    => (InCycle(SpawnOps) => InCycle({"kill_ok"}))

\* ---- C7 -----------------------------------------------------------------

\* C7: no failure of spawn, kill, wait or the exit poll ends the control
\* loop: after a failed call the loop is still running.
C7_FailuresAbsorbed ==
    InCycle({"spawn_err", "kill_err", "wait_err", "poll_err"})
    => pc # "panicked"

\* ---- C8 -----------------------------------------------------------------

\* C8 as stated, for events received at the instant they arrive (arrival
\* time = dequeue time): any two Modify events
\* that arrived more than `interval` apart are both effective Triggers; with
\* interval = 2 (1000 ms), events at t, t+1 and t+3 give exactly the Triggers
\* of the first and the third.
C8_BothEffective ==
    /\ \A i, j \in 1..Len(hist) :
          (/\ i < j
           /\ prompt
           /\ hist[j].deq - hist[i].deq > interval)
          => (hist[i].eff /\ hist[j].eff)
    /\ (/\ interval = 2
        /\ Len(hist) = 3
        /\ AllProcessed
        /\ prompt
        /\ hist[2].deq = hist[1].deq + 1
        /\ hist[3].deq = hist[1].deq + 3)
       => (hist[1].eff /\ ~hist[2].eff /\ hist[3].eff)

\* C8 amended: of two consecutive Modify signals dequeued more than
\* `interval` apart the later one is an effective Trigger (the earlier one
\* only if it passed the filter itself); with interval = 2 (1000 ms),
\* signals dequeued at t, t+1 and t+3, the first more than the interval
\* after startup, give exactly two Triggers, at t and at t+3.
C8_LaterEffective ==
    /\ \A i \in 1..Len(hist) :
          (i > 1 /\ hist[i].deq - hist[i-1].deq > interval)
          => hist[i].eff
    /\ (/\ interval = 2
        /\ Len(hist) = 3
        /\ AllProcessed
        /\ hist[1].deq - StartTime > interval
        /\ hist[2].deq = hist[1].deq + 1
        /\ hist[3].deq = hist[1].deq + 3)
       => fired = <<hist[1].deq, hist[3].deq>>

C8_Witness ==
    /\ interval = 2
    /\ Len(hist) = 3
    /\ AllProcessed
    /\ hist[1].deq - StartTime > interval
    /\ hist[2].deq = hist[1].deq + 1
    /\ hist[3].deq = hist[1].deq + 3
    /\ Len(fired) = 2

\* ---- C9 -----------------------------------------------------------------

C10_TriggersSpaced ==
    \A k \in 1..Len(fired) :
        k > 1 => fired[k] - fired[k-1] > interval

C10_Witness ==
    /\ Len(fired) >= 2
    /\ fired[2] - fired[1] = interval + 1

\* ---- C11 ----------------------------------------------------------------

\* callbacks that hold the lock and have not sent yet
InFlight == IF lock = None THEN 0 ELSE 1

\* the setup succeeded and line 93 has been executed
Started == setup = "ok" /\ pc # "start"

\* the last signal received was an effective Trigger
EffectiveCycle == hist # <<>> /\ hist[Len(hist)].eff

\* C11: only Modify events produce signals: the signals sent or being sent
\* are as many as the Modify events delivered; as long as no Modify event
\* was delivered, whatever other events and errors were, nothing is queued,
\* no Trigger fired, and no kill, wait, poll or spawn was made by the loop.
C11_OnlyModifySends ==
    /\ Sent + InFlight = modifies
    /\ modifies = 0
         => /\ queue = <<>>
            /\ hist = <<>>
            /\ fired = <<>>
            /\ cycle = <<>>
            /\ pc \notin {"kill", "wait", "poll", "spawn"}
            /\ Len(procs) = IF startup = "spawn_ok" THEN 1 ELSE 0
            /\ \A c \in 1..Len(procs) : procs[c] \in {"running", "exited"}

C11_Witness ==
    /\ others >= 2
    /\ modifies = 0
    /\ pc = "recv"
    /\ clock - last > interval

\* ---- C12 ----------------------------------------------------------------

\* C12: a spawn is attempted at startup exactly when reexec is set, and it
\* precedes every dequeue; without reexec the slot is empty and no process
\* exists until the first effective Trigger.
C12_StartupSpawnIffReexec ==
    /\ startup \in {"spawn_ok", "spawn_err"} <=> (reexec /\ Started)
    /\ startup = "skipped" <=> (~reexec /\ Started)
    /\ startup = "none" => (hist = <<>> /\ procs = <<>>)
    /\ (~reexec /\ fired = <<>>) => (child = None /\ procs = <<>>)

C12_Witness ==
    /\ ~reexec
    /\ startup = "skipped"
    /\ hist # <<>>
    /\ fired = <<>>
    /\ procs = <<>>

\* ---- C13 ----------------------------------------------------------------

C13_Outcome ==
    /\ \A i \in 1..Len(cycle) : cycle[i] \in SpawnOps => i = Len(cycle)
    /\ (cycle # <<>> /\ cycle[Len(cycle)] = "spawn_err")
         => (child = None /\ pc = "recv")
    /\ (cycle # <<>> /\ cycle[Len(cycle)] = "spawn_ok")
         => (child = Len(procs) /\ child # None /\ pc = "recv")

C13_Retry ==
    (child = None /\ pc = "recv" /\ Len(fired') = Len(fired) + 1)
    => pc' = "spawn"

\* C13: a cycle makes at most one spawn, as its last call; after a failed
\* spawn the slot is empty and the loop is back at recv, after a successful
\* one the slot holds the new process; an effective Trigger that finds the
\* slot empty (as a failed spawn leaves it) goes to the spawn again.
C13_SpawnOutcome == [][C13_Outcome' /\ C13_Retry]_vars

C13_Witness ==
    /\ ~reexec
    /\ Len(fired) = 2
    /\ taken = None
    /\ cycle = <<"spawn_ok">>
    /\ Len(procs) = 1
    /\ child = 1

\* ---- C14 ----------------------------------------------------------------

\* C14: when the resolved file list is empty or a watch registration fails
\* the program ends with exit code 1 and has spawned nothing; a process is
\* spawned only after the whole setup succeeded.
C14_SetupFailureExits ==
    /\ setup \in {"empty", "watch_err"}
         => /\ exit_code = <<ExitFailure>>
            /\ pc = "exited"
            /\ procs = <<>>
            /\ startup = "none"
            /\ child = None
            /\ hist = <<>>
    /\ (procs # <<>> \/ startup # "none" \/ hist # <<>>) => setup = "ok"

C14_Witness ==
    /\ setup = "watch_err"
    /\ exit_code = <<ExitFailure>>
    /\ reexec

\* ---- C15 ----------------------------------------------------------------

\* C15 as stated: when the --list file cannot be opened the program ends
\* with exit code 1.
C15_OpenFailureExitsOne ==
    setup = "open_err" => exit_code = <<ExitFailure>>

\* C15 amended: when the --list file cannot be opened the main thread
\* panics (exit status 101, not 1), before any watch or spawn.
C15_OpenFailurePanics ==
    setup = "open_err"
    => /\ exit_code = <<PanicExit>>
       /\ pc = "panicked"
       /\ procs = <<>>
       /\ startup = "none"
       /\ hist = <<>>

C15_Witness ==
    /\ setup = "open_err"
    /\ exit_code = <<PanicExit>>
    /\ files = 0

\* ---- C16 ----------------------------------------------------------------

\* C16: a received signal that fails the filter leaves `last`, the slot,
\* the processes and the loop's position as they were and starts no call;
\* `last` changes only when a received signal is effective, and then to
\* that cycle's `now`.
C16_SuppressedChangesNothing ==
    [][/\ (Len(hist') = Len(hist) + 1 /\ ~hist'[Len(hist')].eff)
            => /\ UNCHANGED <<last, child, procs, pc, fired, exit_code>>
               /\ cycle' = <<>>
               /\ pc' = "recv"
       /\ last' # last
            => /\ Len(hist') = Len(hist) + 1
               /\ hist'[Len(hist')].eff
               /\ last' = now'
               /\ now' = clock
      ]_vars

C16_Witness ==
    /\ hist # <<>>
    /\ ~hist[Len(hist)].eff
    /\ now = hist[Len(hist)].deq
    /\ now > last
    /\ fired # <<>>
    /\ child # None
    /\ cycle = <<>>

\* ---- C17 ----------------------------------------------------------------

\* C17: a reconcile starts only in the step that removes a signal from the
\* queue, and that signal is received more than `interval` after `last`;
\* the passage of time changes nothing in the loop; a signal once received
\* is gone from the queue and its verdict is never revised.
C17_ReconcileNeedsSignal ==
    [][/\ (Len(fired') # Len(fired) \/ (pc = "recv" /\ pc' # "recv"))
            => /\ queue # <<>>
               /\ queue' = Tail(queue)
               /\ Len(hist') = Len(hist) + 1
               /\ hist'[Len(hist')].eff
               /\ clock - last > interval
       /\ Len(hist') > Len(hist) => queue' = Tail(queue)
       /\ clock' # clock
            => UNCHANGED <<pc, last, child, procs, fired, hist, cycle, queue>>
       /\ \A i \in 1..Len(hist) : hist'[i] = hist[i]
      ]_vars

C17_Witness ==
    /\ Len(hist) = 2
    /\ hist[1].eff
    /\ ~hist[2].eff
    /\ Len(fired) = 1
    /\ clock - last > interval
    /\ queue = <<>>
    /\ lock = None
    /\ pc = "recv"

\* ---- C18 ----------------------------------------------------------------

\* C18: while the loop is at kill, wait, poll or spawn no signal is
\* received: the queue only grows, and nothing of the filter changes; the
\* loop leaves the wait only when the child is no longer alive or the wait
\* failed.
C18_OneReconcileAtATime ==
    [][/\ pc \in {"kill", "wait", "poll", "spawn"}
            => /\ UNCHANGED <<hist, now, last, fired>>
               /\ queue' = queue \/ queue' = Append(queue, 1)
       /\ (pc = "wait" /\ pc' # "wait")
            => \/ ~Alive(procs[prev_child])
               \/ cycle'[Len(cycle')] = "wait_err"
      ]_vars

C18_Witness ==
    /\ pc = "wait"
    /\ Alive(procs[prev_child])
    /\ queue # <<>>
    /\ ~fresh[1]

\* ---- C19 ----------------------------------------------------------------

\* C19: every Modify event delivered to a callback is one signal, either
\* being sent under the lock, in the queue, or received by the loop: none
\* is lost or duplicated; a thread that holds the lock can always send,
\* whatever the loop is doing and however long the queue is.
C19_SignalsConserved ==
    /\ modifies = Len(hist) + Len(queue) + InFlight
    /\ \A i \in 1..Len(queue) : queue[i] = 1
    /\ \A t \in WatcherThreads : (Running /\ lock = t) => ENABLED Send(t)

C19_Witness ==
    /\ lock = 2
    /\ queue # <<>>
    /\ hist # <<>>
    /\ modifies = 3
    /\ pc = "wait"

\* ---- C20 ----------------------------------------------------------------

\* C20: with or without reexec, an effective Trigger that finds the slot
\* empty goes to the spawn; without reexec the first effective Trigger finds
\* it empty, and no cycle kills.
C20_TriggerSpawnsWithoutReexec ==
    /\ (EffectiveCycle /\ ~HeldCycle)
         => (pc = "spawn" \/ (cycle # <<>> /\ cycle[1] \in SpawnOps))
    /\ (~reexec /\ EffectiveCycle /\ Len(fired) = 1) => ~HeldCycle
    /\ ~reexec => ~InCycle(KillOps \cup WaitOps)

C20_Witness ==
    /\ ~reexec
    /\ Len(fired) = 1
    /\ cycle = <<"spawn_ok">>
    /\ child = 1

TypeOK ==
    /\ clock \in 0..MaxTime
    /\ child \in 0..MaxProcs
    /\ Len(queue) <= MaxSignals
====
